---- MODULE Spec2Model ----
(***************************************************************************)
(* minifold cache connectors (src/src/cache.py).                           *)
(*                                                                         *)
(* CacheConnector.query is modelled step by step: one action per access to *)
(* the cache directory (the is_cached check, the read, the delegation to   *)
(* the child, the write), so that time passing and invalidations by the    *)
(* caller or by another user of the same directory fall between them.      *)
(* Every primitive that may raise (mtime, open, load, mkdir,               *)
(* check_writable_directory, dump) takes a fault input.                    *)
(*                                                                         *)
(* query returns self.answer(query, data); Connector.answer belongs to the *)
(* wrapped connector's side, so the model observes `data` as handed to it. *)
(***************************************************************************)
EXTENDS Integers, Sequences, FiniteSets, TLC

\* ---------------------------------------------------------------- bounds
MaxTime      == 2   \* the clock runs over 0..MaxTime
MaxQueries   == 3   \* number of query() calls in one behaviour
MaxLifetime  == 1   \* lifetimes 0..MaxLifetime, and "no expiry"
NumResponses == 2   \* distinct responses the child may give

\* ------------------------------------------------------------- constants
NoExpiry    == -1        \* lifetime = None
NoneBase    == 0         \* the payload of Python's None
ACTION_READ == "READ"
CACHE_LIFETIME == 1      \* the default lifetime (3 days), the unit of time

Responses == 1..NumResponses
Lifetimes == {NoExpiry} \cup 0..MaxLifetime

\* Query: an action kind and a string form (str(query)), distinct for
\* distinct requests.
Q1 == [name |-> "Q1", action |-> ACTION_READ]
Q2 == [name |-> "Q2", action |-> ACTION_READ]
Q3 == [name |-> "Q3", action |-> "CREATE"]
Queries == {Q1, Q2, Q3}
NoQuery == [name |-> "", action |-> ""]

str(q) == q.name

\* ---------------------------------------------------------------- values
\* A Python value: a child response or None, wrapped in zero or more
\* (value, flag) pairs; wraps[1] is the innermost pair.  kind tells a tuple
\* from the list a JSON array decodes to.
PyNone     == [base |-> NoneBase, wraps |-> <<>>]
Resp(r)    == [base |-> r, wraps |-> <<>>]
Pair(v, b) == [base |-> v.base,
               wraps |-> Append(v.wraps, [kind |-> "tuple", flag |-> b])]

RECURSIVE AsLists(_)
AsLists(w) ==
    IF w = <<>> THEN <<>>
    ELSE <<[kind |-> "list", flag |-> Head(w).flag]>> \o AsLists(Tail(w))

\* ---------------------------------------------------- format presets
Presets == {"Pickle", "Json"}

\* PickleCacheConnector / JsonCacheConnector: the extension argument
Extension(p) == IF p = "Pickle" THEN ".pkl" ELSE ".json"

\* pickle.dump keeps the object graph; json.dump writes tuples as arrays.
callback_dump(p, v) ==
    IF p = "Pickle" THEN [enc |-> "pkl", val |-> v]
    ELSE [enc |-> "json", val |-> [base |-> v.base, wraps |-> AsLists(v.wraps)]]

\* an empty or truncated file cannot be decoded by either loader
LoadRaises(p, f) == f.enc # (IF p = "Pickle" THEN "pkl" ELSE "json")

callback_load(p, f) == f.val

\* ------------------------------------------------------------ filesystem
NoFile == [exists |-> FALSE, enc |-> "none", val |-> PyNone, mtime |-> 0]

FileNames == {str(q) \o Extension(p) : q \in Queries, p \in Presets}

\* the methods a storage strategy overrides; StorageCacheConnector
\* overrides all three
AbstractMethods == {"is_cached", "callback_read", "callback_write"}
\* the two presets; a pickle preset whose subclass overloads is_cachable; a
\* strategy that leaves callback_read or callback_write to CacheConnector;
\* CacheConnector itself
Connectors == {<<"Pickle", AbstractMethods>>,
               <<"Pickle", AbstractMethods \cup {"is_cachable"}>>,
               <<"Json", AbstractMethods>>,
               <<"Pickle", AbstractMethods \ {"callback_read"}>>,
               <<"Pickle", AbstractMethods \ {"callback_write"}>>,
               <<"Pickle", {}>>}

\* the pickle preset is run with every lifetime, the others with the
\* default one
PossibleLifetimes(c) ==
    IF c = <<"Pickle", AbstractMethods>> THEN Lifetimes ELSE {CACHE_LIFETIME}

VARIABLES
    now,        \* datetime.utcnow()
    files,      \* the files of cache_dir: FileNames -> file
    dirExists,  \* cache_dir exists
    lifetime,   \* self.lifetime
    preset,     \* which callback_load/callback_dump/extension
    overloaded, \* methods supplied by the storage strategy
    pc,         \* position of the query() call in progress
    cur,        \* its query
    data,       \* its local `data`
    success,    \* its local `success`
    nq,         \* number of query() calls made
    h,          \* what happened during the call in progress
    prev        \* per query: the result of the last undisturbed call

vars == <<now, files, dirExists, lifetime, preset, overloaded,
          pc, cur, data, success, nq, h, prev>>

config == <<lifetime, preset, overloaded>>

\* ------------------------------------------------- StorageCacheConnector
make_cache_filename(q) == str(q) \o Extension(preset)

is_fresh_cache_le(t_cache, lt, t_now) ==
    IF lt # NoExpiry /\ lt # 0 THEN (t_now - t_cache) <= lt ELSE TRUE

is_fresh_cache_stale(t_cache, lt, t_now) ==
    IF lt # NoExpiry /\ lt # 0 THEN (t_now - t_cache) < lt ELSE FALSE

\* `if lifetime:` is false for None and for timedelta(0)
is_fresh_cache(t_cache, lt, t_now) ==
    IF lt # NoExpiry /\ lt # 0 THEN (t_now - t_cache) < lt ELSE TRUE

\* mtime() is reached only for an existing file and a truthy lifetime
MtimeReached(fs, q) ==
    fs[make_cache_filename(q)].exists /\ lifetime # NoExpiry /\ lifetime # 0

\* StorageCacheConnector.is_cached when mtime does not raise
is_cached(fs, q, t_now) ==
    IF fs[make_cache_filename(q)].exists
    THEN is_fresh_cache(fs[make_cache_filename(q)].mtime, lifetime, t_now)
    ELSE FALSE

\* what a call of a storage method comes to: it raises, or returns ret
Raised(abstract) == [raised |-> TRUE,  abstract |-> abstract, ret |-> PyNone]
Returns(v)       == [raised |-> FALSE, abstract |-> FALSE,    ret |-> v]

\* self.is_cached(query): CacheConnector.is_cached raises RuntimeError
\* unless overloaded; StorageCacheConnector.is_cached raises when mtime does
IsCachedCall(fs, q, t_now, fault) ==
    IF "is_cached" \notin overloaded THEN Raised(TRUE)
    ELSE IF fault = "mtime" /\ MtimeReached(fs, q) THEN Raised(FALSE)
    ELSE Returns(Pair(PyNone, is_cached(fs, q, t_now)))

IsTrue(call) == ~call.raised /\ call.ret = Pair(PyNone, TRUE)

\* StorageCacheConnector.callback_read: a (data, success) tuple
callback_read(fs, q, t_now, fault) ==
    LET ic == IsCachedCall(fs, q, t_now, fault)
        f  == fs[make_cache_filename(q)]
    IN  IF ic.raised THEN ic
        ELSE IF ~IsTrue(ic) THEN Returns(Pair(PyNone, FALSE))
        ELSE IF fault \in {"open", "load"} \/ LoadRaises(preset, f)
             THEN Raised(FALSE)
        ELSE Returns(Pair(callback_load(preset, f), TRUE))

\* self.callback_read(query): CacheConnector.callback_read raises
\* RuntimeError unless overloaded
CallbackReadCall(fs, q, t_now, fault) ==
    IF "callback_read" \notin overloaded THEN Raised(TRUE)
    ELSE callback_read(fs, q, t_now, fault)

\* StorageCacheConnector.callback_write: the directory and files it leaves
\* behind, and whether it raised.  open(..., write_mode) creates or
\* truncates the file before callback_dump runs.
callback_write(fs, dir, q, v, t_now, fault) ==
    LET name   == make_cache_filename(q)
        opened == [exists |-> TRUE, enc |-> "trunc", val |-> PyNone,
                   mtime |-> t_now]
        dumped == [exists |-> TRUE, enc |-> callback_dump(preset, v).enc,
                   val |-> callback_dump(preset, v).val, mtime |-> t_now]
    IN  CASE fault = "mkdir" ->
               [raised |-> TRUE, abstract |-> FALSE, files |-> fs, dir |-> dir]
          [] fault \in {"check", "open"} ->
               [raised |-> TRUE, abstract |-> FALSE, files |-> fs, dir |-> TRUE]
          [] fault = "dump" ->
               [raised |-> TRUE, abstract |-> FALSE,
                files |-> [fs EXCEPT ![name] = opened], dir |-> TRUE]
          [] OTHER ->
               [raised |-> FALSE, abstract |-> FALSE,
                files |-> [fs EXCEPT ![name] = dumped], dir |-> TRUE]

\* self.callback_write(query, data): CacheConnector.callback_write raises
\* RuntimeError unless overloaded
CallbackWriteCall(fs, dir, q, v, t_now, fault) ==
    IF "callback_write" \notin overloaded
    THEN [raised |-> TRUE, abstract |-> TRUE, files |-> fs, dir |-> dir]
    ELSE callback_write(fs, dir, q, v, t_now, fault)

clear_query_all(fs, q) == [n \in FileNames |-> NoFile]

\* StorageCacheConnector.clear_query: the files left
clear_query_files(fs, q) ==
    IF fs[make_cache_filename(q)].exists
    THEN [fs EXCEPT ![make_cache_filename(q)] = NoFile]
    ELSE fs

clear_cache_keep(fs, dir) == fs

\* StorageCacheConnector.clear_cache: the files left by
\* rm(cache_dir, recursive=True), run when the directory exists
clear_cache_files(fs, dir) ==
    IF dir THEN [n \in FileNames |-> NoFile] ELSE fs

\* --------------------------------------------------------- CacheConnector
read_swallow(cb) ==
    IF cb.raised THEN [data |-> PyNone, success |-> TRUE]
    ELSE [data |-> cb.ret, success |-> TRUE]

\* CacheConnector.read: a bare except around callback_read; on success
\* `data` is whatever callback_read returned
read(cb) ==
    IF cb.raised THEN [data |-> PyNone, success |-> FALSE]
    ELSE [data |-> cb.ret, success |-> TRUE]

\* CacheConnector.write: a bare except around callback_write
write(cw) == ~cw.raised

\* CacheConnector.is_cachable
is_cachable(q, d) == TRUE

\* self.is_cachable(query, data): what it may return; an overloading
\* subclass may refuse any response
IsCachableCall(q, d) ==
    IF "is_cachable" \in overloaded THEN BOOLEAN ELSE {is_cachable(q, d)}

NeedsChild_always(s) == TRUE

\* query, line 97: `if not success`
NeedsChild(s) == ~s

ShouldWrite_any(q, cachable) == cachable

\* query, line 99, with `cachable` the result of self.is_cachable(query, data)
ShouldWrite(q, cachable) == q.action = ACTION_READ /\ cachable

AfterRead(s) == IF NeedsChild(s) THEN "child" ELSE "write"

\* ----------------------------------------------------------------- state
ReadFaults  == {"none", "mtime", "open", "load"}
WriteFaults == {"none", "mkdir", "check", "open", "dump"}

H0 == [cachedAtStart |-> FALSE, hadFile |-> FALSE, staleAtStart |-> FALSE,
       startCleared |-> FALSE, startWiped |-> FALSE,
       isCachedRaised |-> FALSE,
       readOutcome |-> "none", writeOutcome |-> "none",
       childCalls |-> 0, childResp |-> PyNone,
       abstractCalled |-> FALSE, faulted |-> FALSE, cachable |-> TRUE,
       prevValid |-> FALSE, prevRet |-> PyNone]

\* prev[q].status: "valid" after a call for q that met no failure and wrote
\* its entry, "cleared" after clear_query(q) removed the entry, until the
\* next write or invalidation of q, "wiped" likewise after clear_cache
NoPrev  == [status |-> "none", ret |-> PyNone]
Cleared == [status |-> "cleared", ret |-> PyNone]
Wiped   == [status |-> "wiped", ret |-> PyNone]

Init ==
    /\ now = 0
    /\ files = [n \in FileNames |-> NoFile]
    /\ dirExists = FALSE
    /\ \E c \in Connectors :
         /\ preset = c[1]
         /\ overloaded = c[2]
         /\ lifetime \in PossibleLifetimes(c)
    /\ pc = "idle"
    /\ cur = NoQuery
    /\ data = PyNone
    /\ success = FALSE
    /\ nq = 0
    /\ h = H0
    /\ prev = [q \in Queries |-> NoPrev]

\* query(), lines 92-94: the call and its is_cached check
Query(q) ==
    /\ pc = "idle"
    /\ nq < MaxQueries
    /\ \E fault \in {"none", "mtime"} :
         LET ic == IsCachedCall(files, q, now, fault)
         IN  /\ pc' = IF ic.raised THEN "raised"
                      ELSE IF IsTrue(ic) THEN "read"
                      ELSE AfterRead(FALSE)
             /\ h' = [H0 EXCEPT
                        !.cachedAtStart = IsTrue(ic),
                        !.hadFile = files[make_cache_filename(q)].exists,
                        !.staleAtStart =
                            /\ files[make_cache_filename(q)].exists
                            /\ lifetime > 0
                            /\ now - files[make_cache_filename(q)].mtime >= lifetime,
                        !.startCleared = prev[q].status = "cleared",
                        !.startWiped = prev[q].status = "wiped",
                        !.isCachedRaised = ic.raised,
                        !.abstractCalled = ic.abstract,
                        !.faulted = ic.raised /\ ~ic.abstract,
                        !.prevValid = prev[q].status = "valid",
                        !.prevRet = prev[q].ret]
    /\ cur' = q
    /\ data' = PyNone
    /\ success' = FALSE
    /\ nq' = nq + 1
    /\ UNCHANGED <<now, files, dirExists, config, prev>>

\* query(), lines 95-96: self.read(query)
Read ==
    /\ pc = "read"
    /\ \E fault \in ReadFaults :
         LET cb == CallbackReadCall(files, cur, now, fault)
             r  == read(cb)
         IN  /\ data' = r.data
             /\ success' = r.success
             /\ pc' = AfterRead(r.success)
             /\ h' = [h EXCEPT
                        !.readOutcome =
                            IF cb.raised THEN "raised"
                            ELSE IF cb.ret = Pair(PyNone, FALSE) THEN "notcached"
                            ELSE "ok",
                        !.abstractCalled = @ \/ cb.abstract,
                        !.faulted = @ \/ (cb.raised /\ ~cb.abstract)]
    /\ UNCHANGED <<now, files, dirExists, config, cur, nq, prev>>

\* query(), lines 97-98: the child answers
Child ==
    /\ pc = "child"
    /\ \E r \in Responses :
         /\ data' = Resp(r)
         /\ h' = [h EXCEPT !.childCalls = @ + 1, !.childResp = Resp(r)]
    /\ pc' = "write"
    /\ UNCHANGED <<now, files, dirExists, config, cur, success, nq, prev>>

\* query(), lines 99-101: the write, if any, and the return of `data`;
\* is_cachable is called only for a read action (`and` short-circuits)
Write ==
    /\ pc = "write"
    /\ \E cachable \in (IF cur.action = ACTION_READ
                         THEN IsCachableCall(cur, data) ELSE {TRUE}) :
         IF ShouldWrite(cur, cachable)
         THEN \E fault \in WriteFaults :
                LET cw == CallbackWriteCall(files, dirExists, cur, data, now, fault)
                    ok == write(cw)
                IN  /\ files' = cw.files
                    /\ dirExists' = cw.dir
                    /\ h' = [h EXCEPT
                               !.writeOutcome = IF ok THEN "ok" ELSE "failed",
                               !.abstractCalled = @ \/ cw.abstract,
                               !.faulted = @ \/ (cw.raised /\ ~cw.abstract)]
                    /\ prev' = [prev EXCEPT ![cur] =
                                  IF ok /\ ~h.faulted
                                  THEN [status |-> "valid", ret |-> data]
                                  ELSE IF cw.files[make_cache_filename(cur)].exists
                                  THEN NoPrev ELSE @]
         ELSE /\ h' = [h EXCEPT !.writeOutcome = "skipped",
                                !.cachable = cachable]
              /\ prev' = [prev EXCEPT ![cur] =
                            IF @.status \in {"cleared", "wiped"}
                            THEN @ ELSE NoPrev]
              /\ UNCHANGED <<files, dirExists>>
    /\ pc' = "done"
    /\ UNCHANGED <<now, config, cur, data, success, nq>>

\* the call is over: `data` was returned, or the exception reached the caller
Return ==
    /\ pc \in {"done", "raised"}
    /\ pc' = "idle"
    /\ cur' = NoQuery
    /\ data' = PyNone
    /\ success' = FALSE
    /\ h' = H0
    /\ UNCHANGED <<now, files, dirExists, config, nq, prev>>

\* Steps of the surroundings (invalidations, by the caller or by another user
\* of cache_dir, and time passing) are taken right before a step of query
\* that looks at the directory or the clock: they commute with Child and
\* Return, which look at neither.
BeforeAccess == pc \in {"idle", "read", "write"}

\* clear_query(query); CacheConnector.clear_query does nothing
clear_query(q) ==
    /\ BeforeAccess
    /\ files' = IF "is_cached" \in overloaded
                THEN clear_query_files(files, q) ELSE files
    /\ prev' = [prev EXCEPT ![q] =
                  IF files'[make_cache_filename(q)] # files[make_cache_filename(q)]
                  THEN Cleared ELSE @]
    /\ h' = IF q = cur
            THEN [h EXCEPT !.prevValid = FALSE, !.prevRet = PyNone] ELSE h
    /\ UNCHANGED <<now, dirExists, config, pc, cur, data, success, nq>>

\* StorageCacheConnector.clear_cache: rm(cache_dir, recursive=True) when
\* the directory exists; CacheConnector.clear_cache does nothing
clear_cache ==
    /\ BeforeAccess
    /\ IF "is_cached" \in overloaded
       THEN /\ files' = clear_cache_files(files, dirExists)
            /\ dirExists' = FALSE
       ELSE UNCHANGED <<files, dirExists>>
    /\ prev' = [q \in Queries |->
                  IF files'[make_cache_filename(q)] # files[make_cache_filename(q)]
                  THEN Wiped
                  ELSE IF prev[q].status = "valid" THEN NoPrev ELSE prev[q]]
    /\ h' = [h EXCEPT !.prevValid = FALSE, !.prevRet = PyNone]
    /\ UNCHANGED <<now, config, pc, cur, data, success, nq>>

\* time passes
Tick ==
    /\ BeforeAccess
    /\ now < MaxTime
    /\ now' = now + 1
    /\ UNCHANGED <<files, dirExists, config, pc, cur, data, success, nq, h, prev>>

Next ==
    \/ \E q \in Queries : Query(q)
    \/ Read
    \/ Child
    \/ Write
    \/ Return
    \/ \E q \in Queries : clear_query(q)
    \/ clear_cache
    \/ Tick

Spec == Init /\ [][Next]_vars

\* ================================================================ claims
Storage    == overloaded = AbstractMethods
CurFile    == files[make_cache_filename(cur)]
Returned   == pc = "done"

\* C1: whatever fails in the storage backend (the is_cached check, the
\* read or the write), query never raises to its caller, and what it
\* returns after delegating is the child's response.
C1_NeverRaises ==
    Storage =>
        /\ pc # "raised"
        /\ (Returned /\ h.childCalls = 1 => data = h.childResp)

\* C2: a second query(q) with a read action, with no invalidation and no
\* expiry since the first, returns the response the first one returned.
C2_SecondEqualsFirst ==
    (/\ Storage /\ Returned /\ cur.action = ACTION_READ
     /\ h.prevValid /\ h.cachedAtStart /\ h.readOutcome = "ok" /\ ~h.faulted)
    => data = h.prevRet

\* C3: an entry that disappears or goes stale between query's is_cached
\* check and the read makes the read report a failure, and query then
\* delegates to the child and returns the child's response.
C3_VanishedIsMiss ==
    (/\ Storage /\ pc \in {"write", "done"}
     /\ h.cachedAtStart /\ h.readOutcome = "notcached")
    => /\ ~success
       /\ h.childCalls = 1
       /\ data = h.childResp

\* C4: a query for a key without entry whose write fails, at whatever step
\* of callback_write, returns the child's result and leaves no entry: no
\* file at the key's path, and is_cached stays false.
C4_FailedWriteLeavesNoEntry ==
    (/\ Storage /\ Returned /\ ~h.hadFile /\ h.writeOutcome = "failed")
    => /\ data = h.childResp
       /\ ~CurFile.exists
       /\ ~is_cached(files, cur, now)

\* C5: with a lifetime L other than "no expiry" (L = 0 included), an entry
\* written at t0 and not touched since is cached exactly while now < t0 + L.
C5_FreshnessWindow ==
    \A q \in Queries :
        LET f == files[make_cache_filename(q)]
        IN  (Storage /\ lifetime # NoExpiry /\ f.exists /\ f.enc # "trunc")
            => (is_cached(files, q, now) <=> now < f.mtime + lifetime)

\* C6: when a method the storage strategy did not supply is invoked, the
\* error reaches the caller of query at once; query does not go on.
C6_AbstractSurfaces ==
    h.abstractCalled => pc = "raised"

\* C7: when callback_read raises, query does not raise: it delegates to
\* the child exactly once and returns the child's response.
C7_FailSoftRead ==
    h.readOutcome = "raised" =>
        /\ pc \in {"child", "write", "done"}
        /\ ~success
        /\ (pc # "child" => h.childCalls = 1 /\ data = h.childResp)

C7_Witness ==
    /\ Storage /\ Returned /\ h.readOutcome = "raised" /\ h.faulted
    /\ h.cachedAtStart /\ h.childCalls = 1 /\ data = h.childResp

\* C8: a query that finds a fresh, readable entry never invokes the child;
\* so the second of two successive query(q), with a working storage and no
\* expiry or invalidation in between, does not invoke it.
C8_HitSkipsChild ==
    /\ (h.cachedAtStart /\ h.readOutcome = "ok" => h.childCalls = 0)
    /\ (/\ pc \in {"write", "done"} /\ h.prevValid /\ h.cachedAtStart
        /\ ~h.faulted /\ ~h.abstractCalled
        => h.childCalls = 0)

C8_Witness ==
    /\ Storage /\ Returned /\ cur.action = ACTION_READ
    /\ h.prevValid /\ h.cachedAtStart /\ h.readOutcome = "ok"
    /\ ~h.faulted /\ h.childCalls = 0

C10_ClearQueryOnlyThatEntry ==
    /\ [][\A q \in Queries :
            (Storage /\ clear_query(q)) =>
                /\ ~files'[make_cache_filename(q)].exists
                /\ ~is_cached(files', q, now')
                /\ \A o \in Queries \ {q} :
                     /\ files'[make_cache_filename(o)]
                            = files[make_cache_filename(o)]
                     /\ is_cached(files', o, now') = is_cached(files, o, now)
                /\ (~files[make_cache_filename(q)].exists => files' = files)
        ]_vars
    /\ [](\A q \in Queries :
            prev[q].status = "cleared" => ~is_cached(files, q, now))
    /\ []((Returned /\ h.startCleared) =>
            /\ ~h.cachedAtStart
            /\ h.childCalls = 1
            /\ data = h.childResp)

C10_Witness ==
    /\ Storage /\ Returned /\ cur = Q1 /\ h.startCleared /\ h.childCalls = 1
    /\ is_cached(files, Q2, now)

\* C11: after clear_cache no request is cached, so the next query of a
\* request that had an entry is a miss that invokes the child; without a
\* cache directory clear_cache changes nothing; and the cache works again
\* afterwards: the write of that next query, when it succeeds, leaves a
\* fresh entry in a re-created directory.
C11_ClearCacheAll ==
    /\ [][(Storage /\ clear_cache) =>
            /\ \A q \in Queries : ~is_cached(files', q, now')
            /\ ~dirExists'
            /\ (~dirExists => files' = files)
        ]_vars
    /\ [](\A q \in Queries :
            prev[q].status = "wiped" => ~is_cached(files, q, now))
    /\ []((Returned /\ h.startWiped) =>
            /\ ~h.cachedAtStart
            /\ h.childCalls = 1
            /\ data = h.childResp
            /\ (h.writeOutcome = "ok" =>
                    /\ dirExists
                    /\ CurFile.exists
                    /\ CurFile.mtime = now
                    /\ ~LoadRaises(preset, CurFile)))

C11_Witness ==
    /\ Storage /\ Returned /\ h.startWiped /\ h.childCalls = 1
    /\ h.writeOutcome = "ok" /\ is_cached(files, cur, now)

\* C12: with lifetime "no expiry", an entry once written is cached at every
\* later time, however late, and stops being cached only by a clear_query
\* of its key or a clear_cache.
C12_NoExpiry ==
    /\ [](\A q \in Queries :
            (Storage /\ lifetime = NoExpiry
                /\ files[make_cache_filename(q)].exists)
            => is_cached(files, q, now))
    /\ [][\A q \in Queries :
            (/\ Storage /\ lifetime = NoExpiry
             /\ files[make_cache_filename(q)].exists
             /\ ~is_cached(files', q, now'))
            => (clear_query(q) \/ clear_cache)
        ]_vars

C12_Witness ==
    /\ Storage /\ lifetime = NoExpiry
    /\ files[make_cache_filename(Q1)].exists
    /\ now - files[make_cache_filename(Q1)].mtime >= MaxTime
    /\ is_cached(files, Q1, now)

\* C13: a query served from the cache (fresh entry, read succeeded) performs
\* no write; a write is attempted only after the child was invoked.
C13_HitDoesNotWrite ==
    /\ (Storage /\ Returned /\ h.cachedAtStart /\ h.readOutcome = "ok")
       => h.writeOutcome \notin {"ok", "failed"}
    /\ (Storage /\ h.writeOutcome \in {"ok", "failed"}) => h.childCalls = 1

C15_EntriesAreChildResponses ==
    \A q \in Queries :
        LET f == files[make_cache_filename(q)]
        IN  (preset = "Pickle" /\ f.exists /\ ~LoadRaises(preset, f))
            => (f.val.wraps = <<>> /\ f.val.base \in Responses)

\* C16: a write that fails over a valid entry of the same key leaves that
\* entry complete and as it was, or leaves no entry; never an empty or
\* truncated file that is_cached accepts.
C16_FailedWriteKeepsOldEntry ==
    (Storage /\ Returned /\ h.prevValid /\ h.writeOutcome = "failed")
    => /\ ~(CurFile.exists /\ LoadRaises(preset, CurFile)
             /\ is_cached(files, cur, now))
       /\ (CurFile.exists =>
             CurFile.val = callback_dump(preset, h.prevRet).val)

====
